---- MODULE Spec2Model ----
(***************************************************************************)
(* Model of build_data.py: the pipeline that parses the Fama-French        *)
(* monthly factor table, compounds it to annual returns, aligns the        *)
(* annual series on a common year axis and writes returns_data.json.       *)
(*                                                                         *)
(* Text is a sequence of one-character strings.  Python indices are kept   *)
(* 0-based (line i of the program is lines[i + 1] here).  An optional      *)
(* value is a sequence of length at most one: <<>> is None, <<v>> is v.    *)
(* Monthly returns are whole percents; annual returns are hundredths of a  *)
(* percent (7.77 is 777), so two-decimal values are integers.              *)
(*                                                                         *)
(* The input texts are built over the characters 0-9, ",", "-", "x", the   *)
(* blank and the letters of "Annual"; the blank is the only whitespace.    *)
(* The download, the date stamp and the display texts of the document are  *)
(* left out: the model starts from the split lines of the CSV.             *)
(***************************************************************************)
EXTENDS Integers, Sequences, FiniteSets

(* ---------------------------- bounds ----------------------------------- *)

\* Number of items (single lines or runs of monthly rows) an input is made of.
MaxItems == 3

(* ------------------------ Python string layer -------------------------- *)

None == <<>>

Some(v) == <<v>>

\* Python truthiness of an optional integer: None and 0 are both false.
Truthy(opt) == opt # None /\ opt[1] # 0

Digits == <<"0", "1", "2", "3", "4", "5", "6", "7", "8", "9">>

IsDigit(c) == c \in {"0", "1", "2", "3", "4", "5", "6", "7", "8", "9"}

DigitVal(c) ==
  CASE c = "0" -> 0 [] c = "1" -> 1 [] c = "2" -> 2 [] c = "3" -> 3
    [] c = "4" -> 4 [] c = "5" -> 5 [] c = "6" -> 6 [] c = "7" -> 7
    [] c = "8" -> 8 [] c = "9" -> 9

IsSpace(c) == c = " "

RECURSIVE LStrip(_)
LStrip(s) ==
  IF s # <<>> /\ IsSpace(Head(s)) THEN LStrip(Tail(s)) ELSE s

RECURSIVE RStrip(_)
RStrip(s) ==
  IF s # <<>> /\ IsSpace(s[Len(s)]) THEN RStrip(SubSeq(s, 1, Len(s) - 1)) ELSE s

\* str.strip()
Strip(s) == RStrip(LStrip(s))

\* str.startswith(p)
StartsWith(s, p) == Len(s) >= Len(p) /\ SubSeq(s, 1, Len(p)) = p

\* p in s
Contains(s, p) ==
  \E k \in 1..(Len(s) - Len(p) + 1) : SubSeq(s, k, k + Len(p) - 1) = p

\* str.split(sep) for a one-character separator: always at least one part.
RECURSIVE SplitAcc(_, _, _)
SplitAcc(s, sep, cur) ==
  IF s = <<>> THEN <<cur>>
  ELSE IF Head(s) = sep THEN <<cur>> \o SplitAcc(Tail(s), sep, <<>>)
  ELSE SplitAcc(Tail(s), sep, Append(cur, Head(s)))

Split(s, sep) == SplitAcc(s, sep, <<>>)

RECURSIVE DigitsVal(_, _)
DigitsVal(s, acc) ==
  IF s = <<>> THEN acc ELSE DigitsVal(Tail(s), 10 * acc + DigitVal(Head(s)))

\* int(s): surrounding blanks ignored, an optional sign, then one or more
\* digits; anything else raises ValueError (None here).
ParseInt(s) ==
  LET t    == Strip(s)
      sgn  == t # <<>> /\ Head(t) \in {"+", "-"}
      body == IF sgn THEN Tail(t) ELSE t
  IN IF body = <<>> \/ \E k \in 1..Len(body) : ~IsDigit(body[k])
     THEN None
     ELSE Some(IF sgn /\ Head(t) = "-" THEN 0 - DigitsVal(body, 0)
               ELSE DigitsVal(body, 0))

\* float(s) on the texts of this model, which hold no ".", exponent, "nan" or
\* "inf": a signed run of digits, valued as the integer it spells.
ParseFloat(s) == ParseInt(s)

RECURSIVE NatToStr(_)
NatToStr(n) ==
  IF n < 10 THEN <<Digits[n + 1]>>
  ELSE NatToStr(n \div 10) \o <<Digits[(n % 10) + 1]>>

\* format(n, "d")
IntToStr(n) == IF n < 0 THEN <<"-">> \o NatToStr(0 - n) ELSE NatToStr(n)

\* format(n, "02d"): zero-padded to width 2 (a sign counts in the width).
Pad2(n) ==
  LET s == IntToStr(n)
  IN IF Len(s) >= 2 THEN s ELSE <<"0">> \o s

(* --------------------------- program constants ------------------------- *)

\* `len(group) < 11`: months a year needs to be compounded.
MinMonths == 11

\* `i > start_idx + 10`: lines past the start before an end line counts.
MinRunLength == 10

\* The hardcoded tables cover 1926..2025.
FirstTableYear == 1926

LastTableYear == 2025

bondsTable ==
  <<
      777, 893, 10, 342, 466, -531, 1684, -7, 1003, 498,
      752, 23, 553, 594, 609, 93, 322, 208, 281, 1073,
      -10, -263, 340, 645, 6, -394, 116, 364, 719, -130,
      -559, 746, -609, -226, 1378, 97, 689, 121, 351, 71,
      365, -918, -26, -507, 1211, 1323, 569, -111, 435, 920,
      1675, -69, -118, -123, -395, 186, 4036, 65, 1548, 3097,
      2453, -271, 967, 1811, 618, 1930, 805, 1824, -777, 3167,
      -93, 1585, 1306, -896, 2148, 370, 1784, 145, 851, 781,
      119, 988, 2587, -1490, 1014, 3397, 336, -1276, 2469, 84,
      118, 280, -116, 1423, 1804, -442, -2926, 398, -460, 150
  >>

inflationTable ==
  <<
      149, -172, -117, 20, -230, -898, -1030, -511, 308, 224,
      146, 360, -208, -142, 72, 500, 1088, 613, 173, 227,
      833, 1436, 807, -103, 126, 788, 192, 75, 75, -37,
      149, 331, 285, 69, 172, 101, 100, 132, 131, 161,
      286, 309, 419, 546, 584, 430, 321, 622, 1104, 913,
      576, 650, 759, 1122, 1358, 1035, 616, 321, 432, 356,
      186, 374, 401, 483, 540, 421, 303, 296, 261, 281,
      293, 234, 155, 219, 338, 283, 159, 227, 268, 339,
      323, 285, 384, -36, 164, 316, 207, 146, 162, 12,
      126, 213, 244, 181, 123, 470, 800, 412, 290, 280
  >>

get_bond_returns ==
  [y \in FirstTableYear..LastTableYear |-> bondsTable[y - FirstTableYear + 1]]

get_inflation ==
  [y \in FirstTableYear..LastTableYear |-> inflationTable[y - FirstTableYear + 1]]

(* ------------------------------ inputs --------------------------------- *)

Comma == <<",">>

Row(tok, a, b, c, d) ==
  tok \o Comma \o IntToStr(a) \o Comma \o IntToStr(b) \o Comma
      \o IntToStr(c) \o Comma \o IntToStr(d)

\* Years the runs of monthly rows carry: one before the tables, two inside.
RunYears == {FirstTableYear - 1, FirstTableYear, FirstTableYear + 1}

\* Row j of a run for year y: date token y followed by month j.  The first
\* row of a run carries the year's distinctive factors, the others are flat.
RunRow(y, j) ==
  LET tok == IntToStr(y) \o Pad2(j)
  IN IF j # 1 THEN Row(tok, 0, 0, 0, 0)
     ELSE IF y = FirstTableYear THEN Row(tok, 100, -100, 0, 0)
     ELSE IF y = FirstTableYear + 1 THEN Row(tok, -100, 100, 0, 100)
     ELSE Row(tok, 100, 0, 0, 0)

\* A well-formed monthly row of the year 2000: it begins with "20", not "192".
Row2000 == Row(<<"2", "0", "0", "0", "0", "1">>, 0, 0, 0, 0)

Blank == <<>>

AnnualMarker == <<" ", "A", "n", "n", "u", "a", "l">>

\* A well-formed row with blanks around it, repeating January 1926.
PaddedRow == <<" ">> \o Row(<<"1", "9", "2", "6", "0", "1">>, 0, 0, 0, 100) \o <<" ">>

BadFloatRow == <<"1", "9", "2", "6", "0", "2", ",", "0", ",", "x", ",", "0", ",", "0">>

ShortRow == <<"1", "9", "2", "6", "0", "3", ",", "0", ",", "0", ",", "0">>

Month13Row == Row(<<"1", "9", "2", "6", "1", "3">>, 0, 0, 0, 0)

SingleLines ==
  {Row2000, Blank, AnnualMarker, PaddedRow, BadFloatRow, ShortRow, Month13Row}

\* An item is one line (n = 0) or a run of n monthly rows of one year.
Items ==
  {[year |-> 0, n |-> 0, text |-> t] : t \in SingleLines}
    \cup {[year |-> y, n |-> n, text |-> <<>>] :
            y \in RunYears, n \in {MinMonths - 1, MinMonths}}

Expand(item) ==
  IF item.n = 0 THEN <<item.text>>
  ELSE [j \in 1..item.n |-> RunRow(item.year, j)]

RECURSIVE Flatten(_)
Flatten(items) ==
  IF items = <<>> THEN <<>> ELSE Expand(Head(items)) \o Flatten(Tail(items))

(* ------------------------------- state --------------------------------- *)

VARIABLES
  lines,         \* raw.split("\n")
  pc,            \* "scan", "read", "compound", "assemble", "done", "failed"
  start_idx,     \* optional 0-based index of the first monthly line
  end_idx,       \* optional 0-based index of the line ending the block
  df,            \* the monthly frame: one record per accepted row
  large_stocks,  \* year -> annual return
  small_stocks,
  tbills,
  all_years,     \* the common year axis
  data           \* optional content of returns_data.json (None: not written)

vars ==
  <<lines, pc, start_idx, end_idx, df, large_stocks, small_stocks, tbills,
    all_years, data>>

EmptyDict == [y \in {} |-> 0]

Init ==
  /\ \E k \in 1..MaxItems : \E items \in [1..k -> Items] : lines = Flatten(items)
  /\ pc = "scan"
  /\ start_idx = None
  /\ end_idx = None
  /\ df = <<>>
  /\ large_stocks = EmptyDict
  /\ small_stocks = EmptyDict
  /\ tbills = EmptyDict
  /\ all_years = <<>>
  /\ data = None

(* ---------------- download_french_factors: block boundaries ------------ *)

\* `line.strip().startswith("192") and "," in line`
IsStartLine(line) ==
  StartsWith(Strip(line), <<"1", "9", "2">>) /\ Contains(line, Comma)

\* `line.strip() == "" or "Annual" in line`
IsEndLine(line) ==
  Strip(line) = <<>> \/ Contains(line, <<"A", "n", "n", "u", "a", "l">>)

\* The first `if` without its `start_idx is None` test: every start-like
\* line moves the start.
StartAfterLast(ls, i, start) ==
  IF IsStartLine(ls[i + 1]) THEN Some(i) ELSE start

\* The start index after the first `if` of the loop body at line i.
StartAfter(ls, i, start) ==
  IF IsStartLine(ls[i + 1]) /\ start = None THEN Some(i) ELSE start

\* The second `if` of the loop body at line i.
EndsAt(ls, i, start) ==
  Truthy(start) /\ IsEndLine(ls[i + 1]) /\ i > start[1] + MinRunLength

\* The loop `for i, line in enumerate(lines)` from line i on.
RECURSIVE ScanFrom(_, _, _)
ScanFrom(ls, i, start) ==
  IF i >= Len(ls) THEN [start |-> start, end |-> None]
  ELSE LET s == StartAfter(ls, i, start)
       IN IF EndsAt(ls, i, s) THEN [start |-> s, end |-> Some(i)]
          ELSE ScanFrom(ls, i + 1, s)

\* The scan without the `raise`: a missing start is read as line 0.
FindMonthlyBlockNoRaise ==
  /\ pc = "scan"
  /\ LET r == ScanFrom(lines, 0, None)
     IN /\ start_idx' = IF r.start = None THEN Some(0) ELSE r.start
        /\ end_idx' = r.end
        /\ pc' = "read"
  /\ UNCHANGED <<lines, df, large_stocks, small_stocks, tbills, all_years, data>>

FindMonthlyBlock ==
  /\ pc = "scan"
  /\ LET r == ScanFrom(lines, 0, None)
     IN /\ start_idx' = r.start
        /\ end_idx' = r.end
        /\ pc' = IF r.start = None THEN "failed" ELSE "read"
  /\ UNCHANGED <<lines, df, large_stocks, small_stocks, tbills, all_years, data>>

(* ---------------- download_french_factors: row extraction -------------- *)

\* `lines[start_idx : end_idx if end_idx else len(lines)]`
MonthlyLines(ls, start, end) ==
  SubSeq(ls, start[1] + 1, IF Truthy(end) THEN end[1] ELSE Len(ls))

\* The body of the row loop: the record appended for one line, or None when
\* the line is passed over (too few parts, `continue`, or a caught error).
ParseRow(line) ==
  LET parts == Split(Strip(line), ",")
  IN IF Len(parts) < 5 THEN None
     ELSE
       LET ym     == Strip(parts[1])
           year   == ParseInt(SubSeq(ym, 1, 4))
           month  == ParseInt(SubSeq(ym, 5, 6))
           mkt_rf == ParseFloat(Strip(parts[2]))
           smb    == ParseFloat(Strip(parts[3]))
           hml    == ParseFloat(Strip(parts[4]))
           rf     == ParseFloat(Strip(parts[5]))
       IN IF Len(ym) # 6 THEN None
          ELSE IF None \in {year, month, mkt_rf, smb, hml, rf} THEN None
          ELSE Some([year |-> year[1], month |-> month[1],
                     mkt_rf |-> mkt_rf[1], smb |-> smb[1],
                     hml |-> hml[1], rf |-> rf[1]])

\* The row loop with `break` where the program has `continue`.
RECURSIVE ParseRowsBreak(_)
ParseRowsBreak(ls) ==
  IF ls = <<>> \/ ParseRow(Head(ls)) = None THEN <<>>
  ELSE ParseRow(Head(ls)) \o ParseRowsBreak(Tail(ls))

\* `for line in monthly_lines`: records in source order.
RECURSIVE ParseRows(_)
ParseRows(ls) ==
  IF ls = <<>> THEN <<>> ELSE ParseRow(Head(ls)) \o ParseRows(Tail(ls))

\* The derived columns of the frame.
WithTotals(r) ==
  [year |-> r.year, month |-> r.month, mkt_rf |-> r.mkt_rf, smb |-> r.smb,
   hml |-> r.hml, rf |-> r.rf,
   mkt_total |-> r.mkt_rf + r.rf,
   small_total |-> r.mkt_rf + r.rf + r.smb,
   tbill |-> r.rf]

RECURSIVE AddTotals(_)
AddTotals(records) ==
  IF records = <<>> THEN <<>>
  ELSE <<WithTotals(Head(records))>> \o AddTotals(Tail(records))

\* A frame built from no records has no columns: df["mkt_rf"] raises KeyError
\* and no frame is returned.
ReadMonthlyData ==
  /\ pc = "read"
  /\ df' = AddTotals(ParseRows(MonthlyLines(lines, start_idx, end_idx)))
  /\ pc' = IF df' = <<>> THEN "failed" ELSE "compound"
  /\ UNCHANGED <<lines, start_idx, end_idx, large_stocks, small_stocks, tbills,
                 all_years, data>>

(* -------------------------- monthly_to_annual -------------------------- *)

\* `1 + r / 100`; the returns of this model are whole multiples of 100
\* percent, for which the factor is an integer and the float product exact.
Growth(r) == (100 + r) \div 100

\* `for r in group[col].values: cum *= (1 + r / 100)`
RECURSIVE Compound(_, _, _)
Compound(group, col, cum) ==
  IF group = <<>> THEN cum
  ELSE Compound(Tail(group), col, cum * Growth(Head(group)[col]))

\* `round(p, 2)` of a whole percent p, in hundredths of a percent.
Round2(p) == p * 100

\* The group of one year, rows in frame order.
RECURSIVE GroupOf(_, _)
GroupOf(frame, year) ==
  IF frame = <<>> THEN <<>>
  ELSE (IF Head(frame).year = year THEN <<Head(frame)>> ELSE <<>>)
         \o GroupOf(Tail(frame), year)

\* The coverage test as `len(group) <= 11`.
monthly_to_annual_strict(frame, col) ==
  LET keys == {frame[k].year : k \in 1..Len(frame)}
      kept == {y \in keys : ~(Len(GroupOf(frame, y)) <= MinMonths)}
  IN [y \in kept |-> Round2((Compound(GroupOf(frame, y), col, 1) - 1) * 100)]

monthly_to_annual(frame, col) ==
  LET keys == {frame[k].year : k \in 1..Len(frame)}
      kept == {y \in keys : ~(Len(GroupOf(frame, y)) < MinMonths)}
  IN [y \in kept |-> Round2((Compound(GroupOf(frame, y), col, 1) - 1) * 100)]

CompoundAnnual ==
  /\ pc = "compound"
  /\ large_stocks' = monthly_to_annual(df, "mkt_total")
  /\ small_stocks' = monthly_to_annual(df, "small_total")
  /\ tbills' = monthly_to_annual(df, "tbill")
  /\ pc' = "assemble"
  /\ UNCHANGED <<lines, start_idx, end_idx, df, all_years, data>>

(* ------------------------ main: align and assemble --------------------- *)

Min(S) == CHOOSE m \in S : \A x \in S : m <= x

\* sorted(S)
RECURSIVE Sorted(_)
Sorted(S) == IF S = {} THEN <<>> ELSE <<Min(S)>> \o Sorted(S \ {Min(S)})

\* The axis as the union of the key sets.
YearAxisUnion(large, bonds, inflation) ==
  Sorted((DOMAIN large) \cup (DOMAIN bonds) \cup (DOMAIN inflation))

\* The axis from the two tables alone.
YearAxisTablesOnly(large, bonds, inflation) ==
  Sorted((DOMAIN bonds) \cap (DOMAIN inflation))

\* `sorted(set(large_stocks.keys()) & set(bonds.keys()) & set(inflation.keys()))`
YearAxis(large, bonds, inflation) ==
  Sorted((DOMAIN large) \cap (DOMAIN bonds) \cap (DOMAIN inflation))

\* dict.get(y, None)
Get(d, y) == IF y \in DOMAIN d THEN Some(d[y]) ELSE None

\* `[series.get(y, None) for y in all_years]`
Returns(series, years) == [k \in 1..Len(years) |-> Get(series, years[k])]

\* Row a sorts at or before row b on ["year", "month"].
RowLeq(a, b) == a.year < b.year \/ (a.year = b.year /\ a.month <= b.month)

\* Stable insertion of row r into a sorted frame.
RECURSIVE InsertRow(_, _)
InsertRow(sorted, r) ==
  IF sorted = <<>> THEN <<r>>
  ELSE IF RowLeq(sorted[Len(sorted)], r) THEN Append(sorted, r)
  ELSE Append(InsertRow(SubSeq(sorted, 1, Len(sorted) - 1), r), sorted[Len(sorted)])

RECURSIVE SortFrom(_, _)
SortFrom(frame, sorted) ==
  IF frame = <<>> THEN sorted
  ELSE SortFrom(Tail(frame), InsertRow(sorted, Head(frame)))

\* The frame left in source order.
sort_values_omitted(frame) == frame

\* `ff.sort_values(["year", "month"])`
sort_values(frame) == SortFrom(frame, <<>>)

\* f"{int(row['year'])}-{int(row['month']):02d}"
DateToken(r) == IntToStr(r.year) \o <<"-">> \o Pad2(r.month)

\* `monthly_dates.append(ym)` over the rows of the sorted frame.
RECURSIVE DateTokens(_)
DateTokens(frame) ==
  IF frame = <<>> THEN <<>>
  ELSE <<DateToken(Head(frame))>> \o DateTokens(Tail(frame))

\* `round(float(row[col]), 3)` over the rows; a whole percent is unchanged.
RECURSIVE Column(_, _)
Column(frame, col) ==
  IF frame = <<>> THEN <<>>
  ELSE <<Head(frame)[col]>> \o Column(Tail(frame), col)

\* Step 4 of main: the monthly arrays.
BuildMonthly(frame) ==
  LET ff_sorted == sort_values(frame)
  IN [dates  |-> DateTokens(ff_sorted),
      stocks |-> Column(ff_sorted, "mkt_total"),
      tbills |-> Column(ff_sorted, "tbill")]

\* Step 5 of main: the document, without its date stamp and display texts.
BuildData(years, frame, large, small, bonds, bills, inflation) ==
  [years   |-> years,
   monthly |-> BuildMonthly(frame),
   assets  |-> [large_stocks |-> Returns(large, years),
                small_stocks |-> Returns(small, years),
                lt_gov_bonds |-> Returns(bonds, years),
                tbills       |-> Returns(bills, years),
                inflation    |-> Returns(inflation, years)]]

AssetKeys == {"large_stocks", "small_stocks", "lt_gov_bonds", "tbills", "inflation"}

\* `rets = [r for r in asset["returns"] if r is not None]`
RECURSIVE NotNone(_)
NotNone(rs) ==
  IF rs = <<>> THEN <<>>
  ELSE (IF Head(rs) = None THEN <<>> ELSE <<Head(rs)>>) \o NotNone(Tail(rs))

\* The summary loop divides by len(rets): ZeroDivisionError when it is 0.
SummaryRaises(d) == \E key \in AssetKeys : Len(NotNone(d.assets[key])) = 0

\* Steps 3 to 5 of main without the two statements that raise on an empty
\* axis.
AssembleUnguarded ==
  /\ pc = "assemble"
  /\ LET years == YearAxis(large_stocks, get_bond_returns, get_inflation)
     IN /\ all_years' = years
        /\ pc' = "done"
        /\ data' = Some(BuildData(years, df, large_stocks, small_stocks,
                                  get_bond_returns, tbills, get_inflation))
  /\ UNCHANGED <<lines, start_idx, end_idx, df, large_stocks, small_stocks, tbills>>

\* Steps 3 to 5 of main and the write.  `all_years[0]` in the year-range
\* print raises IndexError on an empty axis, before anything is written.
Assemble ==
  /\ pc = "assemble"
  /\ LET years == YearAxis(large_stocks, get_bond_returns, get_inflation)
         d     == BuildData(years, df, large_stocks, small_stocks,
                            get_bond_returns, tbills, get_inflation)
     IN /\ all_years' = years
        /\ IF Len(years) = 0 \/ SummaryRaises(d)
           THEN pc' = "failed" /\ data' = data
           ELSE pc' = "done" /\ data' = Some(d)
  /\ UNCHANGED <<lines, start_idx, end_idx, df, large_stocks, small_stocks, tbills>>

Next == FindMonthlyBlock \/ ReadMonthlyData \/ CompoundAnnual \/ Assemble

Spec == Init /\ [][Next]_vars

(* ============================= properties ============================== *)

Range(seq) == {seq[k] : k \in 1..Len(seq)}

\* The three compounding calls have run.
Compounded == pc \in {"assemble", "done"} \/ (pc = "failed" /\ df # <<>>)

\* The row loop has just run (it runs only when a start line was found): the
\* frame is built, or building it from no records has failed.
RowsRead == pc = "compound" \/ (pc = "failed" /\ start_idx # None /\ df = <<>>)

\* Steps 3 to 5 of main have run.
Assembled == pc = "done" \/ (pc = "failed" /\ df # <<>>)

\* Number of frame rows carrying year y.
RowsOfYear(y) == Cardinality({k \in 1..Len(df) : df[k].year = y})

\* C1: the emitted `years` is exactly the set of years that are keys of all
\* five annual series, in strictly ascending order.
C1_YearsAreCommonKeys ==
  data # None =>
    LET years == data[1].years
    IN /\ \A k \in 1..(Len(years) - 1) : years[k] < years[k + 1]
       /\ Range(years) =
            (DOMAIN large_stocks) \cap (DOMAIN small_stocks) \cap (DOMAIN tbills)
              \cap (DOMAIN get_bond_returns) \cap (DOMAIN get_inflation)

\* A dataset was written whose axis has two years while a third year, fully
\* covered by the monthly rows, is missing from the tables and left out.
C1_Witness ==
  /\ data # None
  /\ Len(data[1].years) >= 2
  /\ \E y \in DOMAIN large_stocks : y \notin DOMAIN get_bond_returns

\* Product of the growth factors of column col over the frame rows in K.
RECURSIVE ProductOver(_, _)
ProductOver(K, col) ==
  IF K = {} THEN 1
  ELSE LET k == CHOOSE x \in K : TRUE
       IN Growth(df[k][col]) * ProductOver(K \ {k}, col)

\* C2: a year is a key of an annual series if and only if at least 11 frame
\* rows carry it, and its value compounds every such row, repeats included.
C2_CoverageRule ==
  Compounded =>
    \A col \in {"mkt_total", "small_total", "tbill"} :
      LET series == IF col = "mkt_total" THEN large_stocks
                    ELSE IF col = "small_total" THEN small_stocks ELSE tbills
      IN /\ DOMAIN series = {y \in {df[k].year : k \in 1..Len(df)} : RowsOfYear(y) >= 11}
         /\ \A y \in DOMAIN series :
              series[y] =
                (ProductOver({k \in 1..Len(df) : df[k].year = y}, col) - 1) * 10000

\* One year has exactly 11 rows, two of them the same month, and is kept
\* with the repeated row's return compounded in; another has exactly 10 rows
\* and is absent.
C2_Witness ==
  /\ Compounded
  /\ \E y \in DOMAIN tbills :
       /\ RowsOfYear(y) = 11
       /\ \E j, k \in 1..Len(df) :
            j < k /\ df[j].year = y /\ df[k].year = y /\ df[j].month = df[k].month
       /\ tbills[y] = 10000
  /\ \E k \in 1..Len(df) : RowsOfYear(df[k].year) = 10 /\ df[k].year \notin DOMAIN tbills

\* The text s spells a number for int() and float().
IsNumber(s) ==
  LET t    == Strip(s)
      body == IF t # <<>> /\ Head(t) \in {"+", "-"} THEN Tail(t) ELSE t
  IN body # <<>> /\ \A k \in 1..Len(body) : IsDigit(body[k])

\* At least 5 comma-separated fields, a 6-character date token whose year
\* and month parts are integers, and numbers in fields 2 to 5.
Qualifies(line) ==
  \E parts \in {Split(Strip(line), ",")} :
    /\ Len(parts) >= 5
    /\ \E ym \in {Strip(parts[1])} :
         /\ Len(ym) = 6
         /\ IsNumber(SubSeq(ym, 1, 4))
         /\ IsNumber(SubSeq(ym, 5, 6))
    /\ \A f \in 2..5 : IsNumber(parts[f])

\* The lines of the monthly block as the program delimits it.
Block == MonthlyLines(lines, start_idx, end_idx)

\* The observation r carries the date and the four factors line spells.
Spells(line, r) ==
  \E parts \in {Split(Strip(line), ",")} :
    /\ \E ym \in {Strip(parts[1])} :
         /\ ParseInt(SubSeq(ym, 1, 4)) = Some(r.year)
         /\ ParseInt(SubSeq(ym, 5, 6)) = Some(r.month)
    /\ ParseFloat(parts[2]) = Some(r.mkt_rf)
    /\ ParseFloat(parts[3]) = Some(r.smb)
    /\ ParseFloat(parts[4]) = Some(r.hml)
    /\ ParseFloat(parts[5]) = Some(r.rf)

\* The frame holds one observation per qualifying line of block, in the
\* order of the lines, and nothing else.
RECURSIVE OnePerQualifyingLine(_, _)
OnePerQualifyingLine(block, frame) ==
  IF block = <<>> THEN frame = <<>>
  ELSE IF ~Qualifies(Head(block)) THEN OnePerQualifyingLine(Tail(block), frame)
  ELSE /\ frame # <<>>
       /\ Spells(Head(block), Head(frame))
       /\ OnePerQualifyingLine(Tail(block), Tail(frame))

\* C3: the observations are exactly the qualifying lines of the monthly
\* block, one per line, in source order; the other lines are passed over.
C3_RowAcceptance == RowsRead => OnePerQualifyingLine(Block, df)

\* A block of n lines, all well formed but one in its middle, gave n - 1
\* observations and the run went on.
C3_Witness ==
  /\ pc = "compound"
  /\ Len(Block) >= 3
  /\ Len(df) = Len(Block) - 1
  /\ \E k \in 2..(Len(Block) - 1) : ~Qualifies(Block[k])

\* C4: with no start line in the input the run fails: no observations, no
\* annual series, no year axis, nothing written.
C4_NoStartIsFatal ==
  (pc # "scan" /\ \A i \in 1..Len(lines) : ~IsStartLine(lines[i])) =>
    /\ pc = "failed"
    /\ start_idx = None
    /\ df = <<>>
    /\ DOMAIN large_stocks = {} /\ DOMAIN small_stocks = {} /\ DOMAIN tbills = {}
    /\ all_years = <<>>
    /\ data = None

\* The scan failed on an input of several lines, one of them a well-formed
\* monthly row, none of them a start line.
C4_Witness ==
  /\ pc = "failed"
  /\ start_idx = None
  /\ Len(lines) >= 2
  /\ \E i \in 1..Len(lines) : Qualifies(lines[i])
  /\ \A i \in 1..Len(lines) : ~IsStartLine(lines[i])


\* C5: an empty year axis fails the run and nothing is written; no written
\* dataset has empty `years`.
C5_NoEmptyDataset ==
  /\ data # None => data[1].years # <<>>
  /\ (Assembled /\ all_years = <<>>) => (pc = "failed" /\ data = None)

\* The monthly rows compounded to an annual series, yet it shares no year
\* with the tables, and the run failed in main.
C5_Witness ==
  /\ pc = "failed"
  /\ DOMAIN large_stocks # {}
  /\ all_years = <<>>

\* The annual series behind each asset key of the document.
SeriesOf(key) ==
  IF key = "large_stocks" THEN large_stocks
  ELSE IF key = "small_stocks" THEN small_stocks
  ELSE IF key = "tbills" THEN tbills
  ELSE IF key = "lt_gov_bonds" THEN get_bond_returns
  ELSE get_inflation

\* C6: in a written dataset every asset's `returns` is as long as `years`,
\* entry i is the asset's value for years[i], and none is None.
C6_ReturnsAligned ==
  data # None =>
    \A key \in AssetKeys :
      LET returns == data[1].assets[key]
          years   == data[1].years
      IN /\ Len(returns) = Len(years)
         /\ \A i \in 1..Len(years) :
              /\ returns[i] # None
              /\ years[i] \in DOMAIN SeriesOf(key)
              /\ returns[i][1] = SeriesOf(key)[years[i]]

\* A dataset over two years was written in which large and small stocks
\* differ in one year and bonds differ between the years.
C6_Witness ==
  /\ data # None
  /\ Len(data[1].years) = 2
  /\ data[1].assets["large_stocks"][1] # data[1].assets["small_stocks"][1]
  /\ data[1].assets["lt_gov_bonds"][1] # data[1].assets["lt_gov_bonds"][2]

\* The year-month a date token "Y-MM" spells, as 100 * year + month.
DateKey(token) ==
  LET parts == Split(token, "-")
  IN DigitsVal(parts[1], 0) * 100 + DigitsVal(parts[2], 0)

RECURSIVE NonDecreasing(_)
NonDecreasing(keys) ==
  Len(keys) < 2 \/ (keys[1] <= keys[2] /\ NonDecreasing(Tail(keys)))

RECURSIVE DateKeys(_)
DateKeys(tokens) ==
  IF tokens = <<>> THEN <<>> ELSE <<DateKey(Head(tokens))>> \o DateKeys(Tail(tokens))

\* C7: in a written dataset the three monthly arrays have the length of the
\* frame, every accepted observation is among their entries, and the dates
\* do not decrease.
C7_MonthlyArrays ==
  data # None =>
    LET m == data[1].monthly
    IN /\ Len(m.dates) = Len(df)
       /\ Len(m.stocks) = Len(df)
       /\ Len(m.tbills) = Len(df)
       /\ \E keys \in {DateKeys(m.dates)} :
            /\ NonDecreasing(keys)
            /\ \E entries \in {{<<keys[j], m.stocks[j], m.tbills[j]>> : j \in 1..Len(keys)}} :
                 \A k \in 1..Len(df) :
                   <<100 * df[k].year + df[k].month, df[k].mkt_total, df[k].tbill>>
                     \in entries

\* A dataset was written from a frame whose rows were out of order and held
\* a year the coverage rule excludes.
C7_Witness ==
  /\ data # None
  /\ \E k \in 1..(Len(df) - 1) : ~RowLeq(df[k], df[k + 1])
  /\ \E k \in 1..Len(df) : df[k].year \notin DOMAIN large_stocks

\* C8: every observation has a month in 1..12 and a 4-digit year.
C8_ObservationsWellFormed ==
  \A k \in 1..Len(df) : df[k].month \in 1..12 /\ df[k].year \in 1000..9999

\* First 0-based index past start + 10 whose line is blank or holds
\* "Annual", if there is one.
FirstTerminator(start) ==
  LET T == {i \in 0..(Len(lines) - 1) :
              i > start + 10 /\ IsEndLine(lines[i + 1])}
  IN IF T = {} THEN None ELSE Some(Min(T))

\* C9: wherever the start line is, the block ends at the first terminator
\* more than 10 lines past it, or at the end of input if there is none, and
\* the observations come from the lines before that terminator only.
C9_BlockEndsAtFirstTerminator ==
  (pc # "scan" /\ start_idx # None) =>
    LET t    == FirstTerminator(start_idx[1])
        last == IF t = None THEN Len(lines) ELSE t[1]
    IN /\ end_idx = t
       /\ RowsRead => OnePerQualifyingLine(SubSeq(lines, start_idx[1] + 1, last), df)

\* First 0-based index of a line satisfying Test, if there is one.
FirstIndex(Test(_)) ==
  LET S == {i \in 0..(Len(lines) - 1) : Test(lines[i + 1])}
  IN IF S = {} THEN None ELSE Some(Min(S))

\* Begins, after leading blanks, with "19" or "20" and holds a comma.
Is19or20Line(line) ==
  /\ StartsWith(LStrip(line), <<"1", "9">>) \/ StartsWith(LStrip(line), <<"2", "0">>)
  /\ Contains(line, Comma)

\* Begins, after leading blanks, with "192" and holds a comma.
Is192Line(line) ==
  StartsWith(LStrip(line), <<"1", "9", "2">>) /\ Contains(line, Comma)

\* Where a well-formed row stands before the start line, the observations
\* are still those of the lines from the start line to the end of the block.
NothingBeforeStart ==
  (RowsRead /\ \E i \in 1..start_idx[1] : Qualifies(lines[i])) =>
    OnePerQualifyingLine(
      SubSeq(lines, start_idx[1] + 1,
             IF end_idx = None THEN Len(lines) ELSE end_idx[1]), df)

\* C10 as stated: the start is the first line beginning with "19" or "20"
\* that holds a comma.
C10_StartIsFirst19or20Line ==
  pc # "scan" => start_idx = FirstIndex(Is19or20Line)

\* C10 amended: the start is the first line beginning with "192" that holds
\* a comma (a later such line does not move it), and no line before it
\* gives an observation.
C10_StartIsFirst192Line ==
  /\ pc # "scan" => start_idx = FirstIndex(Is192Line)
  /\ NothingBeforeStart

\* The scan passed over a well-formed row of the year 2000, started at a
\* later line, met further start-like lines after it, and the rows were read.
C10_Witness ==
  /\ pc = "compound"
  /\ start_idx # None
  /\ start_idx[1] > 0
  /\ \E i \in 1..start_idx[1] : Qualifies(lines[i])
  /\ \E i \in (start_idx[1] + 2)..Len(lines) : Is192Line(lines[i])

====
